---- MODULE Spec2Model ----
(***************************************************************************)
(* The persistence layer of the vehicle challan system                     *)
(* (src/backend/database/crud.py over the tables declared in               *)
(* src/backend/database/models.py) as a state machine.                     *)
(*                                                                         *)
(* The three tables are sets of rows.  A row carries the attributes that   *)
(* crud.py assigns and queries; models.py supplies the declarations of     *)
(* those attributes: the primary keys, the unique columns, the foreign     *)
(* keys, the column defaults and the delete cascade of Vehicle.challans.   *)
(* An attribute that a constructor call does not assign and that has no    *)
(* column default is stored unset (Null for text, NoAmount for amounts);   *)
(* the nullable=False declarations are not modelled as a reason to reject  *)
(* an insert.                                                              *)
(*                                                                         *)
(* Text that the code formats (the challan number) is a sequence of        *)
(* one-character strings, so that formatting is computed digit by digit.   *)
(* The clock is a count of ticks since the midnight that starts day 0.     *)
(*                                                                         *)
(* Beside the store, the module holds the PDF generator's field checks     *)
(* (src/backend/utils/pdf_generator.py), get_db_connection                 *)
(* (src/backend/config.py) and the ViolationDetector                       *)
(* (src/backend/models/violation_detector.py), whose confidences and       *)
(* thresholds are counted in tenths.                                       *)
(***************************************************************************)
EXTENDS Integers, Sequences, FiniteSets, TLC

\* ------------------------------------------------------------------ bounds

\* Last tick of the clock.
MaxTime == 3
\* Clock ticks in one UTC day.
TicksPerDay == 2
\* Largest primary key the model hands out, per table.
MaxVehicleId == 2
MaxTypeId == 1
MaxChallanId == 3
\* Calls in a run of a specification that limits them.
MaxCalls == 1
\* Entries of a detector's violation history.
MaxHistory == 6

\* ------------------------------------------------------------- input values

Sessions == {1, 2}

Regs == {"MH12AB1234", "KA05CD5678"}
ChassisNos == {"CH001"}
EngineNos == {"EN001"}
Colors == {"white"}
Codes == {"V001"}
Officers == {7}
Owners == {3}
Severities == {"high"}

\* The unset value of a text attribute (Python None).
Null == "NULL"
\* A numeric attribute that may be unset holds {} when unset (Python None)
\* and {v} when set to v.
NoAmount == {}
NoRef == {}

\* ------------------------------------------------------------------- text

DigitChar == <<"0", "1", "2", "3", "4", "5", "6", "7", "8", "9">>

\* str(n) for n >= 0: the decimal digits, most significant first.
RECURSIVE Str(_)
Str(n) == IF n < 10 THEN <<DigitChar[n + 1]>>
          ELSE Str(n \div 10) \o <<DigitChar[(n % 10) + 1]>>

\* s.zfill(width)
RECURSIVE ZFill(_, _)
ZFill(s, width) == IF Len(s) >= width THEN s ELSE ZFill(<<"0">> \o s, width)

\* ------------------------------------------------------------------- clock

\* The calendar date of day 0 of the clock: the clock's second day starts a
\* new month and a new year.
Epoch == [year |-> 2024, month |-> 12, day |-> 31]

IsLeap(y) == (y % 4 = 0 /\ y % 100 # 0) \/ y % 400 = 0

DaysInMonth(y, m) ==
    IF m = 2 THEN (IF IsLeap(y) THEN 29 ELSE 28)
    ELSE IF m \in {4, 6, 9, 11} THEN 30 ELSE 31

\* The calendar date n days after y-m-d.
RECURSIVE DateAfter(_, _, _, _)
DateAfter(y, m, d, n) ==
    IF n = 0 THEN [year |-> y, month |-> m, day |-> d]
    ELSE IF d < DaysInMonth(y, m) THEN DateAfter(y, m, d + 1, n - 1)
    ELSE IF m < 12 THEN DateAfter(y, m + 1, 1, n - 1)
    ELSE DateAfter(y + 1, 1, 1, n - 1)

DayOf(t) == t \div TicksPerDay

\* datetime.replace(hour=0, minute=0, second=0, microsecond=0)
Midnight(t) == DayOf(t) * TicksPerDay

\* datetime.strftime("%Y%m%d")
StrfYmd(t) ==
    LET date == DateAfter(Epoch.year, Epoch.month, Epoch.day, DayOf(t))
    IN  ZFill(Str(date.year), 4) \o ZFill(Str(date.month), 2)
            \o ZFill(Str(date.day), 2)

\* ------------------------------------------------------------------- state

VARIABLES
    vehicles,          \* rows of table vehicles
    violation_types,   \* rows of table violation_types
    challans,          \* rows of table challans
    next_id,           \* the next primary key of each table
    now,               \* the clock (datetime.utcnow())
    sess,              \* the create_challan call each session is in
    ret,               \* the call that returned in the last step, if any
    detector,          \* the ViolationDetector: its threshold and history
    observed,          \* whether the specification records what calls return
    calls              \* the number of calls made, where a run is kept short

vars == <<vehicles, violation_types, challans, next_id, now, sess, ret,
          detector, observed, calls>>

store == <<vehicles, violation_types, challans>>

\* A session that is in no call.
Idle == [pc |-> "idle", date_str |-> <<>>, midnight |-> 0, count |-> 0,
         challan_number |-> <<>>, vehicle_id |-> 0, violation_type_id |-> 0,
         officer_id |-> 0, fine_amount |-> 0, row |-> {}]

NoData == [f \in {} |-> 0]

\* No call returned in the last step.
NoReturn == [op |-> "none", id |-> 0, key |-> "", data |-> NoData,
             outcome |-> "none", rows |-> {}]

\* What a call returned: op names the operation, id / key / data its
\* arguments, outcome how it ended ("row", "none", "true", "false", or the
\* exception raised) and rows the row it returned, if any.
Returned(op, id, key, data, outcome, rows) ==
    IF observed
    THEN [op |-> op, id |-> id, key |-> key, data |-> data,
          outcome |-> outcome, rows |-> rows]
    ELSE NoReturn

\* The default of confidence_threshold, 0.6; confidences and thresholds are
\* counted in tenths.
DefaultThreshold == 6

\* ViolationDetector.__init__: any threshold is kept, and the history is
\* empty.
ViolationDetector(confidence_threshold) ==
    [confidence_threshold |-> confidence_threshold,
     violation_history |-> <<>>]

Init ==
    /\ vehicles = {}
    /\ violation_types = {}
    /\ challans = {}
    /\ next_id = [vehicles |-> 1, violation_types |-> 1, challans |-> 1]
    /\ now = 0
    /\ sess = [s \in Sessions |-> Idle]
    /\ ret = NoReturn
    /\ detector = ViolationDetector(DefaultThreshold)
    /\ observed = TRUE
    /\ calls = 0

\* ------------------------------------------------------------ the storage

\* Query.filter(...).first(): the results it can give, a matching row {r}
\* or None ({}).
First(rows) == IF rows = {} THEN {{}} ELSE {{r} : r \in rows}

\* (mutant) the text columns without their unique indexes.
UniqueConflict_NoIndex(table, row, columns) == FALSE

\* The unique index of a text column rejects `row`: another row of `table`
\* holds the same value in one of `columns`.  A NULL equals no other NULL.
UniqueConflict(table, row, columns) ==
    \E r \in table :
        r.id # row.id /\ \E c \in columns : row[c] # Null /\ r[c] = row[c]

\* unique=True columns of Vehicle and ViolationType
VehicleUnique == {"registration_number", "chassis_number", "engine_number"}
TypeUnique == {"code"}

\* (mutant) challans.challan_number without its unique index.
NumberConflict_NoIndex(table, row) == FALSE

\* The unique index of challans.challan_number rejects `row`.
NumberConflict(table, row) ==
    \E r \in table : r.id # row.id /\ r.challan_number = row.challan_number

\* (mutant) the update without update_data['updated_at'] = utcnow().
SetAttrs_NoStamp(row, data, t) ==
    [f \in DOMAIN row |-> IF f \in DOMAIN data THEN data[f] ELSE row[f]]

\* (mutant) the update loop skipping the status field.
SetAttrs_KeepStatus(row, data, t) ==
    [f \in DOMAIN row |->
        IF f = "updated_at" THEN t
        ELSE IF f \in DOMAIN data /\ f # "status" THEN data[f] ELSE row[f]]

\* The loop `for field, value in update_data.items(): setattr(row, field,
\* value)` after update_data['updated_at'] = datetime.utcnow().
SetAttrs(row, data, t) ==
    [f \in DOMAIN row |->
        IF f = "updated_at" THEN t
        ELSE IF f \in DOMAIN data THEN data[f] ELSE row[f]]

\* update.dict(exclude_unset=True): the fields the caller supplied, any
\* subset of `fields`, with values from the records `fulls`.
Supplied(fulls, fields) ==
    {[f \in S |-> full[f]] : full \in fulls, S \in SUBSET fields}

\* (mutant) update_* without its `if not row: return None`: setattr on None.
UpdateMissing_Raises == "AttributeError"

\* What update_* returns when no row has the id: None.
UpdateMissing == "none"

\* (mutant) delete_* without its `if not row: return False`: db.delete(None).
DeleteMissing_Raises == "UnmappedInstanceError"

\* What delete_* returns when no row has the id: False.
DeleteMissing == "false"

\* The clock advances, up to `last`.
Tick(last) ==
    /\ now < last
    /\ now' = now + 1
    /\ ret' = NoReturn
    /\ UNCHANGED <<vehicles, violation_types, challans, next_id, sess>>

\* ---------------------------------------------------------------- vehicles

\* The requests create_vehicle is called with, and the owner.  The request
\* names the chassis and engine numbers; create_vehicle reads neither.  A
\* status of None is Null.
VehicleCreates ==
    [registration_number : Regs, chassis_number : ChassisNos,
     engine_number : EngineNos, color : Colors, owner_id : Owners,
     status : {Null}]

VehicleUpdates ==
    Supplied([registration_number : Regs, chassis_number : ChassisNos,
              engine_number : EngineNos, color : {"black"}],
             {"registration_number", "chassis_number", "engine_number", "color"})

\* Vehicle(registration_number=..., owner_id=..., color=...,
\* status=vehicle.status or "active", created_at=utcnow()) as create_vehicle
\* builds it, with the column default of updated_at.
NewVehicle(vehicle, id, t) ==
    [id |-> id, registration_number |-> vehicle.registration_number,
     chassis_number |-> Null, engine_number |-> Null,
     owner_id |-> vehicle.owner_id, color |-> vehicle.color,
     status |-> IF vehicle.status \in {Null, ""} THEN "active"
                ELSE vehicle.status,
     created_at |-> t, updated_at |-> t]

get_vehicle(vehicle_id) ==
    /\ \E found \in First({v \in vehicles : v.id = vehicle_id}) :
          ret' = Returned("get_vehicle", vehicle_id, "", NoData,
                          IF found = {} THEN "none" ELSE "row", found)
    /\ UNCHANGED <<vehicles, violation_types, challans, next_id, now, sess>>

get_vehicle_by_registration(registration_number) ==
    /\ \E found \in First({v \in vehicles :
                              v.registration_number = registration_number}) :
          ret' = Returned("get_vehicle_by_registration", 0, registration_number,
                          NoData, IF found = {} THEN "none" ELSE "row", found)
    /\ UNCHANGED <<vehicles, violation_types, challans, next_id, now, sess>>

create_vehicle(vehicle) ==
    LET db_vehicle == NewVehicle(vehicle, next_id.vehicles, now)
    IN  /\ next_id.vehicles <= MaxVehicleId
        /\ IF UniqueConflict(vehicles, db_vehicle, VehicleUnique)
           THEN /\ ret' = Returned("create_vehicle", 0, "", vehicle,
                                   "IntegrityError", {})
                /\ UNCHANGED <<vehicles, next_id>>
           ELSE /\ vehicles' = vehicles \cup {db_vehicle}
                /\ next_id' = [next_id EXCEPT !.vehicles = @ + 1]
                /\ ret' = Returned("create_vehicle", 0, "", vehicle, "row",
                                   {db_vehicle})
        /\ UNCHANGED <<violation_types, challans, now, sess>>

update_vehicle(vehicle_id, vehicle_update) ==
    /\ \E found \in First({v \in vehicles : v.id = vehicle_id}) :
          IF found = {}
          THEN /\ ret' = Returned("update_vehicle", vehicle_id, "",
                                  vehicle_update, UpdateMissing, {})
               /\ UNCHANGED vehicles
          ELSE \E db_vehicle \in found :
                 LET updated == SetAttrs(db_vehicle, vehicle_update, now)
                 IN  IF UniqueConflict(vehicles, updated, VehicleUnique)
                     THEN /\ ret' = Returned("update_vehicle", vehicle_id, "",
                                             vehicle_update, "IntegrityError", {})
                          /\ UNCHANGED vehicles
                     ELSE /\ vehicles' = (vehicles \ {db_vehicle}) \cup {updated}
                          /\ ret' = Returned("update_vehicle", vehicle_id, "",
                                             vehicle_update, "row", {updated})
    /\ UNCHANGED <<violation_types, challans, next_id, now, sess>>

\* (mutant) Vehicle.challans without its delete cascade.
OwnedChallans_None(vehicle_id) == {}

\* Vehicle.challans, cascade="all, delete-orphan": the challans that are
\* deleted with the vehicle.
OwnedChallans(vehicle_id) == {c \in challans : c.vehicle_id = vehicle_id}

delete_vehicle(vehicle_id) ==
    /\ \E found \in First({v \in vehicles : v.id = vehicle_id}) :
          IF found = {}
          THEN /\ ret' = Returned("delete_vehicle", vehicle_id, "", NoData,
                                  DeleteMissing, {})
               /\ UNCHANGED <<vehicles, challans>>
          ELSE /\ vehicles' = vehicles \ found
               /\ challans' = challans \ OwnedChallans(vehicle_id)
               /\ ret' = Returned("delete_vehicle", vehicle_id, "", NoData,
                                  "true", {})
    /\ UNCHANGED <<violation_types, next_id, now, sess>>

\* ---------------------------------------------------------- violation types

ViolationTypeCreates ==
    [code : Codes, severity : Severities, fine_amount : {500}]

ViolationTypeUpdates ==
    Supplied([code : Codes, fine_amount : {750}], {"code", "fine_amount"})

\* ViolationType(code=..., severity=..., fine_amount=...,
\* created_at=utcnow()) as create_violation_type builds it, with the column
\* default of updated_at.
NewViolationType(violation_type, id, t) ==
    [id |-> id, code |-> violation_type.code,
     severity |-> violation_type.severity,
     fine_amount |-> violation_type.fine_amount,
     created_at |-> t, updated_at |-> t]

get_violation_type(violation_type_id) ==
    /\ \E found \in First({v \in violation_types : v.id = violation_type_id}) :
          ret' = Returned("get_violation_type", violation_type_id, "", NoData,
                          IF found = {} THEN "none" ELSE "row", found)
    /\ UNCHANGED <<vehicles, violation_types, challans, next_id, now, sess>>

get_violation_type_by_code(code) ==
    /\ \E found \in First({v \in violation_types : v.code = code}) :
          ret' = Returned("get_violation_type_by_code", 0, code, NoData,
                          IF found = {} THEN "none" ELSE "row", found)
    /\ UNCHANGED <<vehicles, violation_types, challans, next_id, now, sess>>

create_violation_type(violation_type) ==
    LET db_violation_type ==
            NewViolationType(violation_type, next_id.violation_types, now)
    IN  /\ next_id.violation_types <= MaxTypeId
        /\ IF UniqueConflict(violation_types, db_violation_type, TypeUnique)
           THEN /\ ret' = Returned("create_violation_type", 0, "",
                                   violation_type, "IntegrityError", {})
                /\ UNCHANGED <<violation_types, next_id>>
           ELSE /\ violation_types' = violation_types \cup {db_violation_type}
                /\ next_id' = [next_id EXCEPT !.violation_types = @ + 1]
                /\ ret' = Returned("create_violation_type", 0, "",
                                   violation_type, "row", {db_violation_type})
        /\ UNCHANGED <<vehicles, challans, now, sess>>

update_violation_type(violation_type_id, violation_type_update) ==
    /\ \E found \in First({v \in violation_types : v.id = violation_type_id}) :
          IF found = {}
          THEN /\ ret' = Returned("update_violation_type", violation_type_id,
                                  "", violation_type_update, UpdateMissing, {})
               /\ UNCHANGED violation_types
          ELSE \E db_violation_type \in found :
                 LET updated ==
                         SetAttrs(db_violation_type, violation_type_update, now)
                 IN  IF UniqueConflict(violation_types, updated, TypeUnique)
                     THEN /\ ret' = Returned("update_violation_type",
                                             violation_type_id, "",
                                             violation_type_update,
                                             "IntegrityError", {})
                          /\ UNCHANGED violation_types
                     ELSE /\ violation_types' =
                                 (violation_types \ {db_violation_type})
                                     \cup {updated}
                          /\ ret' = Returned("update_violation_type",
                                             violation_type_id, "",
                                             violation_type_update, "row",
                                             {updated})
    /\ UNCHANGED <<vehicles, challans, next_id, now, sess>>

\* db.delete(db_violation_type): ViolationType.challans has no delete
\* cascade, so the unit of work detaches the challans of the deleted type
\* (their violation_type_id becomes unset) and deletes the type.
delete_violation_type(violation_type_id) ==
    /\ \E found \in First({v \in violation_types : v.id = violation_type_id}) :
          IF found = {}
          THEN /\ ret' = Returned("delete_violation_type", violation_type_id,
                                  "", NoData, DeleteMissing, {})
               /\ UNCHANGED <<violation_types, challans>>
          ELSE /\ violation_types' = violation_types \ found
               /\ challans' =
                     {IF c.violation_type_id = {violation_type_id}
                      THEN [c EXCEPT !.violation_type_id = NoRef] ELSE c
                        : c \in challans}
               /\ ret' = Returned("delete_violation_type", violation_type_id,
                                  "", NoData, "true", {})
    /\ UNCHANGED <<vehicles, next_id, now, sess>>

\* ---------------------------------------------------------------- challans

\* class ChallanStatus(enum.Enum), by value.
ChallanStatus ==
    {"issued", "paid", "pending", "cancelled", "appealed", "resolved"}

\* The updates that supply a status and nothing else.
StatusUpdates == [status : ChallanStatus]

\* The requests create_challan is called with: the ChallanCreate fields it
\* reads, the vehicle and the officer.
ChallanCreates ==
    [violation_type_id : 1 .. MaxTypeId, fine_amount : {500},
     vehicle_id : 1 .. MaxVehicleId, officer_id : Officers]

ChallanUpdates ==
    Supplied([fine_amount : {1000}, additional_charges : {100},
              total_amount : {{1100}}, status : {"paid"}],
             {"fine_amount", "additional_charges", "total_amount", "status"})

\* The text generate_challan_number returns for the date text and the count
\* it read: f"CH-{date_str}-{str(count + 1).zfill(5)}".
FormatChallanNumber(date_str, count) ==
    <<"C", "H", "-">> \o date_str \o <<"-">> \o ZFill(Str(count + 1), 5)

\* (mutant) the count query without its created_at filter.
CountSince_All(midnight) == Cardinality(challans)

\* The count query of generate_challan_number:
\* count(Challan.id) where created_at >= midnight.
CountSince(midnight) == Cardinality({c \in challans : c.created_at >= midnight})

\* Challan(challan_number=..., ..., created_at=utcnow()) as create_challan
\* builds it at clock reading t.  additional_charges takes its column
\* default; no total_amount is assigned and the column has no default.
NewChallan(call, t) ==
    [id |-> 0, challan_number |-> call.challan_number,
     vehicle_id |-> call.vehicle_id,
     violation_type_id |-> {call.violation_type_id},
     officer_id |-> call.officer_id, issued_date |-> t,
     fine_amount |-> call.fine_amount, additional_charges |-> 0,
     total_amount |-> NoAmount, status |-> "pending",
     created_at |-> t, updated_at |-> t]

\* The foreign keys of `row` name stored rows.
ForeignKeysHold(row) ==
    /\ \E v \in vehicles : v.id = row.vehicle_id
    /\ \A t \in row.violation_type_id : \E v \in violation_types : v.id = t

get_challan(challan_id) ==
    /\ \E found \in First({c \in challans : c.id = challan_id}) :
          ret' = Returned("get_challan", challan_id, "", NoData,
                          IF found = {} THEN "none" ELSE "row", found)
    /\ UNCHANGED <<vehicles, violation_types, challans, next_id, now, sess>>

get_challan_by_number(challan_number) ==
    /\ \E found \in First({c \in challans :
                              c.challan_number = challan_number}) :
          ret' = Returned("get_challan_by_number", 0, challan_number, NoData,
                          IF found = {} THEN "none" ELSE "row", found)
    /\ UNCHANGED <<vehicles, violation_types, challans, next_id, now, sess>>

\* create_challan, first step: generate_challan_number reads the clock for
\* the date text.
create_challan_date(s, challan) ==
    /\ sess[s].pc = "idle"
    /\ next_id.challans +
           Cardinality({o \in Sessions : sess[o].pc # "idle"}) <= MaxChallanId
    /\ sess' = [sess EXCEPT ![s] =
                  [Idle EXCEPT !.pc = "dated", !.date_str = StrfYmd(now),
                               !.vehicle_id = challan.vehicle_id,
                               !.violation_type_id = challan.violation_type_id,
                               !.officer_id = challan.officer_id,
                               !.fine_amount = challan.fine_amount]]
    /\ ret' = NoReturn
    /\ UNCHANGED <<vehicles, violation_types, challans, next_id, now>>

\* create_challan, second step: generate_challan_number reads the clock
\* again for midnight, counts today's challans and formats the number.
create_challan_count(s) ==
    /\ sess[s].pc = "dated"
    /\ sess' = [sess EXCEPT ![s].pc = "numbered",
                            ![s].midnight = Midnight(now),
                            ![s].count = CountSince(Midnight(now)),
                            ![s].challan_number =
                                FormatChallanNumber(sess[s].date_str,
                                                    CountSince(Midnight(now)))]
    /\ ret' = NoReturn
    /\ UNCHANGED <<vehicles, violation_types, challans, next_id, now>>

\* create_challan, third step: the Challan object is built and added to the
\* session.
create_challan_build(s) ==
    /\ sess[s].pc = "numbered"
    /\ sess' = [sess EXCEPT ![s].pc = "built",
                            ![s].row = {NewChallan(sess[s], now)}]
    /\ ret' = NoReturn
    /\ UNCHANGED <<vehicles, violation_types, challans, next_id, now>>

\* create_challan, last step: db.commit() inserts the row unless a
\* constraint rejects it, and the call returns.
create_challan_commit(s) ==
    /\ sess[s].pc = "built"
    /\ \E built \in sess[s].row :
          LET db_challan == [built EXCEPT !.id = next_id.challans]
              challan == [violation_type_id |-> sess[s].violation_type_id,
                          fine_amount |-> sess[s].fine_amount,
                          vehicle_id |-> sess[s].vehicle_id,
                          officer_id |-> sess[s].officer_id]
          IN  IF \/ ~ForeignKeysHold(db_challan)
                 \/ NumberConflict(challans, db_challan)
              THEN /\ ret' = Returned("create_challan", s, "", challan,
                                      "IntegrityError", {})
                   /\ UNCHANGED <<challans, next_id>>
              ELSE /\ challans' = challans \cup {db_challan}
                   /\ next_id' = [next_id EXCEPT !.challans = @ + 1]
                   /\ ret' = Returned("create_challan", s, "", challan, "row",
                                      {db_challan})
    /\ sess' = [sess EXCEPT ![s] = Idle]
    /\ UNCHANGED <<vehicles, violation_types, now>>

update_challan(challan_id, challan_update) ==
    /\ \E found \in First({c \in challans : c.id = challan_id}) :
          IF found = {}
          THEN /\ ret' = Returned("update_challan", challan_id, "",
                                  challan_update, UpdateMissing, {})
               /\ UNCHANGED challans
          ELSE \E db_challan \in found :
                 LET updated == SetAttrs(db_challan, challan_update, now)
                 IN  /\ challans' = (challans \ {db_challan}) \cup {updated}
                     /\ ret' = Returned("update_challan", challan_id, "",
                                        challan_update, "row", {updated})
    /\ UNCHANGED <<vehicles, violation_types, next_id, now, sess>>

delete_challan(challan_id) ==
    /\ \E found \in First({c \in challans : c.id = challan_id}) :
          IF found = {}
          THEN /\ ret' = Returned("delete_challan", challan_id, "", NoData,
                                  DeleteMissing, {})
               /\ UNCHANGED challans
          ELSE /\ challans' = challans \ found
               /\ ret' = Returned("delete_challan", challan_id, "", NoData,
                                  "true", {})
    /\ UNCHANGED <<vehicles, violation_types, next_id, now, sess>>

\* ------------------------------------------------------------------ lists

\* `if value:` on an optional int argument: None ({}) and 0 are falsy.
TruthyInt(value) == value # {} /\ value # {0}

\* `if value:` on an optional str argument: None (Null) and '' are falsy.
TruthyStr(value) == value \notin {Null, ""}

\* `if value:` on an optional datetime argument: only None ({}) is falsy.
TruthyTime(value) == value # {}

\* The orders in which a query without order_by may return `rows`.
Orders(rows) ==
    {seq \in [1 .. Cardinality(rows) -> rows] :
        \A i, j \in DOMAIN seq : i # j => seq[i] # seq[j]}

\* order_by(Challan.issued_date.desc()): rows with equal issued_date come
\* in an order the database chooses.
OrdersByIssuedDateDesc(rows) ==
    {seq \in Orders(rows) :
        \A i, j \in DOMAIN seq :
            i < j => seq[i].issued_date >= seq[j].issued_date}

\* query.offset(skip).limit(limit).all()
OffsetLimit(seq, skip, limit) ==
    SubSeq(seq, skip + 1,
           IF skip + limit < Len(seq) THEN skip + limit ELSE Len(seq))

\* The arguments the list functions are called with: pages of one or two
\* rows; no filter, one filter, or every filter of the function.  A filter
\* that is not passed is None: {} for an id or a time, Null for a text.
Skips == {0, 1}
Limits == {1, 2}

NoVehicleFilters == [owner_id |-> {}, status |-> Null]

VehicleFilters ==
    {NoVehicleFilters, [owner_id |-> {3}, status |-> "active"]}
    \cup {[NoVehicleFilters EXCEPT !.owner_id = {id}] : id \in {0} \cup Owners}
    \cup {[NoVehicleFilters EXCEPT !.status = st] : st \in {"", "active"}}

ViolationTypeFilters == {[severity |-> sv] : sv \in {Null, ""} \cup Severities}

NoChallanFilters ==
    [vehicle_id |-> {}, status |-> Null, officer_id |-> {},
     date_from |-> {}, date_to |-> {}]

ChallanFilters ==
    {NoChallanFilters,
     [vehicle_id |-> {1}, status |-> "pending", officer_id |-> {7},
      date_from |-> {0}, date_to |-> {1}]}
    \cup {[NoChallanFilters EXCEPT !.vehicle_id = {id}] : id \in {0, 1}}
    \cup {[NoChallanFilters EXCEPT !.status = st] : st \in {"", "pending"}}
    \cup {[NoChallanFilters EXCEPT !.officer_id = {id}] :
             id \in {0} \cup Officers}
    \cup {[NoChallanFilters EXCEPT !.date_from = {t}] : t \in {1}}
    \cup {[NoChallanFilters EXCEPT !.date_to = {t}] : t \in {0}}

\* The filters of get_vehicles.
GetVehiclesQuery(owner_id, status) ==
    {v \in vehicles :
        /\ TruthyInt(owner_id) => owner_id = {v.owner_id}
        /\ TruthyStr(status) => v.status = status}

get_vehicles(skip, limit, owner_id, status) ==
    /\ \E seq \in Orders(GetVehiclesQuery(owner_id, status)) :
          ret' = Returned("get_vehicles", 0, "",
                          [skip |-> skip, limit |-> limit,
                           owner_id |-> owner_id, status |-> status],
                          "rows", OffsetLimit(seq, skip, limit))
    /\ UNCHANGED <<vehicles, violation_types, challans, next_id, now, sess>>

\* The filter of get_violation_types.
GetViolationTypesQuery(severity) ==
    {v \in violation_types : TruthyStr(severity) => v.severity = severity}

get_violation_types(skip, limit, severity) ==
    /\ \E seq \in Orders(GetViolationTypesQuery(severity)) :
          ret' = Returned("get_violation_types", 0, "",
                          [skip |-> skip, limit |-> limit,
                           severity |-> severity],
                          "rows", OffsetLimit(seq, skip, limit))
    /\ UNCHANGED <<vehicles, violation_types, challans, next_id, now, sess>>

\* The filters of get_challans.
GetChallansQuery(vehicle_id, status, officer_id, date_from, date_to) ==
    {c \in challans :
        /\ TruthyInt(vehicle_id) => vehicle_id = {c.vehicle_id}
        /\ TruthyStr(status) => c.status = status
        /\ TruthyInt(officer_id) => officer_id = {c.officer_id}
        /\ TruthyTime(date_from) => \A t \in date_from : c.issued_date >= t
        /\ TruthyTime(date_to) => \A t \in date_to : c.issued_date <= t}

get_challans(skip, limit, vehicle_id, status, officer_id, date_from, date_to) ==
    /\ \E seq \in OrdersByIssuedDateDesc(
                     GetChallansQuery(vehicle_id, status, officer_id,
                                      date_from, date_to)) :
          ret' = Returned("get_challans", 0, "",
                          [skip |-> skip, limit |-> limit,
                           vehicle_id |-> vehicle_id, status |-> status,
                           officer_id |-> officer_id,
                           date_from |-> date_from, date_to |-> date_to],
                          "rows", OffsetLimit(seq, skip, limit))
    /\ UNCHANGED <<vehicles, violation_types, challans, next_id, now, sess>>

VehicleLists ==
    \E skip \in Skips, limit \in Limits, f \in VehicleFilters :
        get_vehicles(skip, limit, f.owner_id, f.status)

ViolationTypeLists ==
    \E skip \in Skips, limit \in Limits, f \in ViolationTypeFilters :
        get_violation_types(skip, limit, f.severity)

ChallanLists ==
    \E skip \in Skips, limit \in Limits, f \in ChallanFilters :
        get_challans(skip, limit, f.vehicle_id, f.status, f.officer_id,
                     f.date_from, f.date_to)

\* ------------------------------------------------------------- statistics

\* func.sum(Challan.fine_amount) over `rows`.
RECURSIVE SumFineAmount(_)
SumFineAmount(rows) ==
    IF rows = {} THEN 0
    ELSE LET row == CHOOSE r \in rows : TRUE
         IN  row.fine_amount + SumFineAmount(rows \ {row})

\* .scalar() of a func.sum query: None ({}) when no row is summed.
ScalarSum(rows) == IF rows = {} THEN {} ELSE {SumFineAmount(rows)}

\* `value or 0`: None and 0 give 0.
OrZero(value) == IF value \in {{}, {0}} THEN 0 ELSE CHOOSE v \in value : TRUE

\* (mutant) an inner join: only the violation types that challans reference.
JoinedTypes_Inner ==
    {t \in violation_types : \E c \in challans : c.violation_type_id = {t.id}}

\* query(ViolationType...).outerjoin(Challan).group_by(ViolationType.id,
\* ...): one group per violation type, with or without challans.
JoinedTypes == violation_types

\* func.count(Challan.id) of the group of violation type t.
ChallanCount(t) == Cardinality({c \in challans : c.violation_type_id = {t.id}})

get_violation_type_statistics ==
    /\ \E results \in Orders(JoinedTypes) :
          ret' = Returned("get_violation_type_statistics", 0, "", NoData,
                          "rows",
                          [i \in DOMAIN results |->
                              [code |-> results[i].code,
                               challan_count |-> ChallanCount(results[i])]])
    /\ UNCHANGED <<vehicles, violation_types, challans, next_id, now, sess>>

\* (mutant) the revenue query without its status filter.
PaidRevenue_All == ScalarSum(challans)

\* query(func.sum(Challan.fine_amount)).filter(Challan.status == 'paid')
PaidRevenue == ScalarSum({c \in challans : c.status = "paid"})

get_dashboard_statistics ==
    /\ ret' = Returned("get_dashboard_statistics", 0, "", NoData, "dict",
                       {[total_vehicles |-> OrZero({Cardinality(vehicles)}),
                         total_challans |-> OrZero({Cardinality(challans)}),
                         pending_challans |->
                             OrZero({Cardinality({c \in challans :
                                                    c.status = "pending"})}),
                         total_revenue |-> OrZero(PaidRevenue)]})
    /\ UNCHANGED <<vehicles, violation_types, challans, next_id, now, sess>>

\* -------------------------------------------------------------- documents

\* The values of a dictionary passed to the PDF generator.
PyNone == [py |-> "None"]
PyStr(text) == [py |-> "str", text |-> text]
PyInt(n) == [py |-> "int", n |-> n]

\* `not value`: None, '' and 0 are falsy.
Falsy(value) == value \in {PyNone, PyStr(""), PyInt(0)}

\* isinstance(value, (int, float))
IsNumber(value) == value.py = "int"

\* (mutant) the required fields of a challan PDF without the location.
ChallanRequired_NoLocation ==
    <<"challan_number", "date", "vehicle_number", "owner_name",
      "violation_description", "amount">>

\* required_fields of generate_challan_pdf.
ChallanRequired ==
    <<"challan_number", "date", "vehicle_number", "owner_name",
      "violation_description", "amount", "location">>

\* required_fields of generate_receipt_pdf.
ReceiptRequired ==
    <<"receipt_number", "challan_number", "date", "amount",
      "payment_method", "vehicle_number", "owner_name">>

\* required_fields of validate_challan_data, in the order of the dict, with
\* f"{label} is required" for each label.
ChallanLabels ==
    <<[field |-> "challan_number", error |-> "Challan Number is required"],
      [field |-> "date", error |-> "Date is required"],
      [field |-> "vehicle_number", error |-> "Vehicle Number is required"],
      [field |-> "owner_name", error |-> "Owner Name is required"],
      [field |-> "violation_description",
       error |-> "Violation Description is required"],
      [field |-> "amount", error |-> "Amount is required"],
      [field |-> "location", error |-> "Location is required"]>>

\* required_fields of validate_receipt_data.
ReceiptLabels ==
    <<[field |-> "receipt_number", error |-> "Receipt Number is required"],
      [field |-> "challan_number", error |-> "Challan Number is required"],
      [field |-> "date", error |-> "Date is required"],
      [field |-> "amount", error |-> "Amount is required"],
      [field |-> "payment_method", error |-> "Payment Method is required"],
      [field |-> "vehicle_number", error |-> "Vehicle Number is required"],
      [field |-> "owner_name", error |-> "Owner Name is required"]>>

\* The dictionaries with any of `fields` as keys; the amount takes every
\* kind of value, the other fields a text.
Dicts(fields) ==
    {[f \in keys |-> IF f = "amount" THEN amount ELSE PyStr("text")] :
        keys \in SUBSET {fields[i] : i \in DOMAIN fields},
        amount \in {PyInt(0), PyInt(500), PyStr("500"), PyStr(""), PyNone}}

\* output_path: None, or a path.
OutputPaths == {Null, "out.pdf"}

\* generate_challan_pdf and generate_receipt_pdf: ValueError, whose message
\* lists required_fields, unless every required field is a key of the
\* dictionary; then the document is built, and returned as bytes when no
\* output_path is given.
GeneratePdf(op, required, data, output_path) ==
    /\ IF \A i \in DOMAIN required : required[i] \in DOMAIN data
       THEN ret' = Returned(op, 0, output_path, data,
                            IF TruthyStr(output_path) THEN "written"
                            ELSE "bytes", <<>>)
       ELSE ret' = Returned(op, 0, output_path, data, "ValueError", required)
    /\ UNCHANGED <<vehicles, violation_types, challans, next_id, now, sess>>

generate_challan_pdf(challan_data, output_path) ==
    GeneratePdf("generate_challan_pdf", ChallanRequired, challan_data,
                output_path)

generate_receipt_pdf(receipt_data, output_path) ==
    GeneratePdf("generate_receipt_pdf", ReceiptRequired, receipt_data,
                output_path)

\* The errors list of validate_challan_data and validate_receipt_data.
RECURSIVE RequiredErrors(_, _)
RequiredErrors(labels, data) ==
    IF labels = <<>> THEN <<>>
    ELSE LET field == Head(labels).field
             rest == RequiredErrors(Tail(labels), data)
         IN  IF field \notin DOMAIN data \/ Falsy(data[field])
             THEN <<Head(labels).error>> \o rest
             ELSE rest

ValidateData(op, labels, data) ==
    /\ LET errors ==
               RequiredErrors(labels, data) \o
               (IF /\ "amount" \in DOMAIN data
                   /\ ~Falsy(data["amount"])
                   /\ ~IsNumber(data["amount"])
                THEN <<"Amount must be a number">> ELSE <<>>)
       IN  ret' = Returned(op, 0, "", data,
                           IF Len(errors) = 0 THEN "valid" ELSE "invalid",
                           errors)
    /\ UNCHANGED <<vehicles, violation_types, challans, next_id, now, sess>>

validate_challan_data(data) ==
    ValidateData("validate_challan_data", ChallanLabels, data)

validate_receipt_data(data) ==
    ValidateData("validate_receipt_data", ReceiptLabels, data)

\* ---------------------------------------------------------- the connection

\* The error numbers of the mysql.connector.Error that connect() raises:
\* the server's (1xxx) and the client's (2xxx).
ErrorNumbers == (1040 .. 1099) \cup (2000 .. 2019)

\* str(err) of such an error.
ErrorTexts == {"Can't connect to MySQL server", "Access denied for user"}

ServerInfos == {"8.0.36"}

\* What one call of mysql.connector.connect(**DB_CONFIG) gives: a connection,
\* whose is_connected() answers either way, or an Error.
ConnectResults ==
    [kind : {"connection"}, is_connected : BOOLEAN, server_info : ServerInfos]
        \cup [kind : {"Error"}, errno : ErrorNumbers, text : ErrorTexts]

\* The line that the except clause prints for err.
ErrorMessage(err) ==
    CASE err.errno = 2003 ->
             "Error: Unable to connect to MySQL Server. Make sure the server is running."
      [] err.errno = 1045 -> "Error: Invalid username or password."
      [] err.errno = 1049 -> "Error: Database does not exist."
      [] OTHER -> "Error: " \o err.text

ExceptError_Swallowed(err) ==
    [printed |-> ErrorMessage(err), outcome |-> "none", raised |-> {}]

\* The except clause: it prints the line for err and raises err again.
ExceptError(err) ==
    [printed |-> ErrorMessage(err), outcome |-> "Error", raised |-> {err}]

\* get_db_connection makes one call of connect().  ret.key is the line it
\* printed, ret.data what connect() gave and ret.rows the error it raised;
\* a connection whose is_connected() is false is followed by no return
\* statement, and None is returned.
get_db_connection(result) ==
    /\ ret' =
          IF result.kind = "Error"
          THEN LET handled == ExceptError(result)
               IN  Returned("get_db_connection", result.errno, handled.printed,
                            result, handled.outcome, handled.raised)
          ELSE IF result.is_connected
          THEN Returned("get_db_connection", 0,
                        "Successfully connected to MySQL Server version "
                            \o result.server_info,
                        result, "connection", {})
          ELSE Returned("get_db_connection", 0, "", result, "none", {})
    /\ UNCHANGED <<vehicles, violation_types, challans, next_id, now, sess>>

\* ------------------------------------------------------------ the detector

\* The values of the detector's enumeration ViolationType.
ViolationType == {"helmet_not_worn", "seat_belt_not_worn", "tripling", "none"}

Frames == {"frame"}
\* Bounding boxes (x1, y1, x2, y2).
Regions == {<<0, 0, 10, 10>>, <<5, 5, 20, 20>>}
\* Thresholds a caller passes, in tenths: -0.1, 0.0, 0.6, 1.0 and 1.1.
Thresholds == {-1, 0, 6, 10, 11}

\* The ViolationDetection that each detect_* method builds at clock t.  The
\* optional fields hold {} when they are None.
HelmetViolation(vehicle_region, t) ==
    [violation_type |-> "helmet_not_worn", confidence |-> 0,
     location |-> vehicle_region, timestamp |-> t, vehicle_id |-> {},
     additional_info |-> {}]

SeatBeltViolation(vehicle_region, t) ==
    [violation_type |-> "seat_belt_not_worn", confidence |-> 0,
     location |-> vehicle_region, timestamp |-> t, vehicle_id |-> {},
     additional_info |-> {}]

TriplingViolation_Scored(vehicle_region, t) ==
    [violation_type |-> "tripling", confidence |-> 9,
     location |-> vehicle_region, timestamp |-> t, vehicle_id |-> {},
     additional_info |-> {[occupant_count |-> 3]}]

TriplingViolation(vehicle_region, t) ==
    [violation_type |-> "tripling", confidence |-> 0,
     location |-> vehicle_region, timestamp |-> t, vehicle_id |-> {},
     additional_info |-> {[occupant_count |-> 0]}]

\* `violation if violation.confidence >= self.confidence_threshold else
\* None`, as a list of the violation or of nothing.
Detected(violation) ==
    IF violation.confidence >= detector.confidence_threshold
    THEN <<violation>> ELSE <<>>

\* A method that leaves the detector as it is and returns rows.
DetectorReturns(op, data, outcome, rows) ==
    /\ ret' = Returned(op, 0, "", data, outcome, rows)
    /\ UNCHANGED <<detector, vehicles, violation_types, challans, next_id,
                   now, sess>>

DetectOne(op, violation, frame) ==
    DetectorReturns(op, [frame |-> frame, vehicle_region |-> violation.location],
                    IF Detected(violation) = <<>> THEN "none" ELSE "detection",
                    Detected(violation))

detect_helmet_violation(frame, vehicle_region) ==
    DetectOne("detect_helmet_violation", HelmetViolation(vehicle_region, now),
              frame)

detect_seat_belt_violation(frame, vehicle_region) ==
    DetectOne("detect_seat_belt_violation",
              SeatBeltViolation(vehicle_region, now), frame)

detect_tripling_violation(frame, vehicle_region) ==
    DetectOne("detect_tripling_violation",
              TriplingViolation(vehicle_region, now), frame)

\* detect_all_violations appends what the three methods return to a list,
\* extends the history by that list and returns it.
detect_all_violations(frame, vehicle_region) ==
    LET violations == Detected(HelmetViolation(vehicle_region, now))
                          \o Detected(SeatBeltViolation(vehicle_region, now))
                          \o Detected(TriplingViolation(vehicle_region, now))
    IN  /\ Len(detector.violation_history) + Len(violations) <= MaxHistory
        /\ detector' = [detector EXCEPT !.violation_history = @ \o violations]
        /\ ret' = Returned("detect_all_violations", 0, "",
                           [frame |-> frame, vehicle_region |-> vehicle_region],
                           "list", violations)
        /\ UNCHANGED <<vehicles, violation_types, challans, next_id, now, sess>>

\* severity_map.get(violation.violation_type, "low")
get_violation_severity(violation) ==
    DetectorReturns("get_violation_severity", [violation |-> violation],
                    CASE violation.violation_type = "helmet_not_worn" -> "critical"
                      [] violation.violation_type = "seat_belt_not_worn" -> "high"
                      [] violation.violation_type = "tripling" -> "critical"
                      [] violation.violation_type = "none" -> "none"
                      [] OTHER -> "low",
                    <<>>)

\* fine_map.get(violation, 0); the fine is ret.id.
get_violation_fine(violation) ==
    /\ ret' = Returned("get_violation_fine",
                       CASE violation = "helmet_not_worn" -> 500
                         [] violation = "seat_belt_not_worn" -> 1000
                         [] violation = "tripling" -> 500
                         [] OTHER -> 0,
                       violation, NoData, "int", <<>>)
    /\ UNCHANGED <<detector, vehicles, violation_types, challans, next_id,
                   now, sess>>

clear_history ==
    /\ detector' = [detector EXCEPT !.violation_history = <<>>]
    /\ ret' = Returned("clear_history", 0, "", NoData, "none", <<>>)
    /\ UNCHANGED <<vehicles, violation_types, challans, next_id, now, sess>>

HistoryCopy_Same(history) == [list |-> history, shared |-> TRUE]

\* self.violation_history.copy(): a list of the same entries that is not
\* the list the detector holds.
HistoryCopy(history) == [list |-> history, shared |-> FALSE]

\* get_history returns a copy of the history; ret.key tells whether the
\* list returned is the detector's own.
get_history ==
    /\ ret' = Returned("get_history", 0,
                       IF HistoryCopy(detector.violation_history).shared
                       THEN "same" ELSE "copy",
                       NoData, "list",
                       HistoryCopy(detector.violation_history).list)
    /\ UNCHANGED <<detector, vehicles, violation_types, challans, next_id,
                   now, sess>>

\* The caller clears the list that get_history returned in the last step;
\* the detector's history is cleared with it when it is that list.
clear_returned_list ==
    /\ ret.op = "get_history"
    /\ detector' = IF ret.key = "same"
                   THEN [detector EXCEPT !.violation_history = <<>>]
                   ELSE detector
    /\ ret' = Returned("list.clear", 0, ret.key, NoData, "none", <<>>)
    /\ UNCHANGED <<vehicles, violation_types, challans, next_id, now, sess>>

set_confidence_threshold_AssignsFirst(threshold) ==
    /\ detector' = [detector EXCEPT !.confidence_threshold = threshold]
    /\ ret' = Returned("set_confidence_threshold", threshold, "", NoData,
                       IF 0 <= threshold /\ threshold <= 10
                       THEN "none" ELSE "ValueError", <<>>)
    /\ UNCHANGED <<vehicles, violation_types, challans, next_id, now, sess>>

\* set_confidence_threshold: ValueError unless 0 <= threshold <= 1 (10
\* tenths).
set_confidence_threshold(threshold) ==
    /\ IF ~(0 <= threshold /\ threshold <= 10)
       THEN /\ ret' = Returned("set_confidence_threshold", threshold, "",
                               NoData, "ValueError", <<>>)
            /\ UNCHANGED detector
       ELSE /\ detector' = [detector EXCEPT !.confidence_threshold = threshold]
            /\ ret' = Returned("set_confidence_threshold", threshold, "",
                               NoData, "none", <<>>)
    /\ UNCHANGED <<vehicles, violation_types, challans, next_id, now, sess>>

\* ------------------------------------------------------ the plate detector

\* Text is a sequence of one-character strings.
UpperCase ==
    <<"A", "B", "C", "D", "E", "F", "G", "H", "I", "J", "K", "L", "M",
      "N", "O", "P", "Q", "R", "S", "T", "U", "V", "W", "X", "Y", "Z">>
LowerCase ==
    <<"a", "b", "c", "d", "e", "f", "g", "h", "i", "j", "k", "l", "m",
      "n", "o", "p", "q", "r", "s", "t", "u", "v", "w", "x", "y", "z">>

Range(seq) == {seq[i] : i \in DOMAIN seq}

IsSpace(c) == c = " "
IsDigit(c) == c \in Range(DigitChar)
IsAlpha(c) == c \in Range(UpperCase) \cup Range(LowerCase)

\* str.upper() of one character.
UpperChar(c) ==
    IF c \in Range(LowerCase)
    THEN UpperCase[CHOOSE i \in DOMAIN LowerCase : LowerCase[i] = c]
    ELSE c

Upper(text) == [i \in DOMAIN text |-> UpperChar(text[i])]

\* str.lstrip(), str.rstrip() and str.strip().
RECURSIVE LStrip(_)
LStrip(text) ==
    IF text # <<>> /\ IsSpace(Head(text)) THEN LStrip(Tail(text)) ELSE text

RECURSIVE RStrip(_)
RStrip(text) ==
    IF text # <<>> /\ IsSpace(text[Len(text)])
    THEN RStrip(SubSeq(text, 1, Len(text) - 1)) ELSE text

Strip(text) == RStrip(LStrip(text))

\* The first word of a text that starts with no space, and what follows it.
RECURSIVE WordLen(_)
WordLen(text) ==
    IF text = <<>> \/ IsSpace(Head(text)) THEN 0 ELSE 1 + WordLen(Tail(text))

\* str.split(): the words between runs of spaces.
RECURSIVE Split(_)
Split(text) ==
    LET rest == LStrip(text)
    IN  IF rest = <<>> THEN <<>>
        ELSE <<SubSeq(rest, 1, WordLen(rest))>>
                 \o Split(SubSeq(rest, WordLen(rest) + 1, Len(rest)))

\* ' '.join(words)
RECURSIVE Join(_)
Join(words) ==
    IF words = <<>> THEN <<>>
    ELSE IF Len(words) = 1 THEN Head(words)
    ELSE Head(words) \o <<" ">> \o Join(Tail(words))

AllowedChars == Range(UpperCase) \cup Range(DigitChar) \cup {" ", "-"}

\* clean_plate_text: spaces collapsed, upper case, the characters outside
\* allowed_chars dropped, stripped.
CleanPlateText(text) ==
    Strip(SelectSeq(Upper(Join(Split(text))), LAMBDA c : c \in AllowedChars))

\* validate_plate_format
ValidatePlateFormat(text, country) ==
    LET stripped == Strip(text)
    IN  IF country = "IN"
        THEN IF Len(stripped) < 8 THEN FALSE
             ELSE /\ \E i \in DOMAIN stripped : IsDigit(stripped[i])
                  /\ \E i \in DOMAIN stripped : IsAlpha(stripped[i])
        ELSE Len(stripped) > 0

\* Plates in one image.
MaxPlates == 2

\* What the OCR reader reads in a plate region: the texts of its results.
CleanReading == <<"M", "H", "1", "2", "A", "B", "1", "2", "3", "4">>
LowerReading == <<"m", "h", "1", "2", "a", "b", "1", "2", "3", "4">>
MarkedReading == <<"M", "H", "#", "1", "2", ".", "A", "B", "1", "2">>
SpacedReading == <<" ", "K", "A", " ", " ", "0", "5", " ">>
ShortReading == <<"K", "A", "-", "0", "5">>

OcrResults ==
    {<<>>, <<CleanReading>>, <<LowerReading>>, <<MarkedReading>>,
     <<SpacedReading, ShortReading>>, <<ShortReading>>,
     <<LowerReading, CleanReading>>, <<CleanReading, ShortReading>>}

PlateBox == [x1 |-> 10, y1 |-> 20, x2 |-> 110, y2 |-> 50]
EmptyBox == [x1 |-> 10, y1 |-> 20, x2 |-> 10, y2 |-> 50]

\* A box that the YOLO model reports, with its confidence in tenths, and
\* what the OCR reader reads in it.
Plates ==
    [coordinates : {PlateBox}, confidence : {9}, readtext : OcrResults]
        \cup [coordinates : {EmptyBox}, confidence : {5},
              readtext : {<<CleanReading>>}]

\* The sequences of at most n plates.
PlateLists(n) == UNION {[1 .. k -> Plates] : k \in 0 .. n}

Countries == {"IN", "US"}

\* The texts that the utility functions are called with.
PlateTexts ==
    {Join(results) : results \in OcrResults} \cup {<<" ">>, <<"-", "-">>}

\* extract_plate_text: "" for an empty region, else the texts of the OCR
\* results joined by one space and stripped.
ExtractPlateText(plate) ==
    IF plate.coordinates.x1 >= plate.coordinates.x2
          \/ plate.coordinates.y1 >= plate.coordinates.y2
    THEN <<>>
    ELSE IF plate.readtext = <<>> THEN <<>>
    ELSE Strip(Join(plate.readtext))

\* The result that process_image builds for the detection at position idx
\* (plate_id counts from 0).
ProcessResult(plates, idx) ==
    [plate_id |-> idx - 1,
     coordinates |-> plates[idx].coordinates,
     confidence |-> plates[idx].confidence,
     plate_text |-> ExtractPlateText(plates[idx]),
     dimensions |->
         [width |-> plates[idx].coordinates.x2 - plates[idx].coordinates.x1,
          height |-> plates[idx].coordinates.y2 - plates[idx].coordinates.y1]]

\* process_image: ValueError when cv2.imread gives no image, else one
\* result for each detection, in order.
process_image(readable, plates) ==
    /\ ret' = IF ~readable
              THEN Returned("process_image", 0, "", NoData, "ValueError", <<>>)
              ELSE Returned("process_image", 0, "", [plates |-> plates], "list",
                            [idx \in DOMAIN plates |->
                                 ProcessResult(plates, idx)])
    /\ UNCHANGED <<vehicles, violation_types, challans, next_id, now, sess>>

\* clean_plate_text and validate_plate_format as calls; ret.key is the
\* country and ret.rows the text returned.
clean_plate_text(text) ==
    /\ ret' = Returned("clean_plate_text", 0, "", [text |-> text], "str",
                       CleanPlateText(text))
    /\ UNCHANGED <<vehicles, violation_types, challans, next_id, now, sess>>

validate_plate_format(text, country) ==
    /\ ret' = Returned("validate_plate_format", 0, country, [text |-> text],
                       IF ValidatePlateFormat(text, country)
                       THEN "true" ELSE "false", <<>>)
    /\ UNCHANGED <<vehicles, violation_types, challans, next_id, now, sess>>

\* ------------------------------------------------------------ the system

VehicleIds == 1 .. MaxVehicleId
TypeIds == 1 .. MaxTypeId
ChallanIds == 1 .. MaxChallanId

\* The challan numbers a lookup is called with.
NumberKeys ==
    {FormatChallanNumber(StrfYmd(t), n) : t \in {0, MaxTime}, n \in 0 .. 1}

VehicleReads ==
    \/ \E id \in VehicleIds : get_vehicle(id)
    \/ \E reg \in Regs : get_vehicle_by_registration(reg)

VehicleWrites ==
    \/ \E vehicle \in VehicleCreates : create_vehicle(vehicle)
    \/ \E id \in VehicleIds, data \in VehicleUpdates : update_vehicle(id, data)
    \/ \E id \in VehicleIds : delete_vehicle(id)

ViolationTypeReads ==
    \/ \E id \in TypeIds : get_violation_type(id)
    \/ \E code \in Codes : get_violation_type_by_code(code)

ViolationTypeWrites ==
    \/ \E vt \in ViolationTypeCreates : create_violation_type(vt)
    \/ \E id \in TypeIds, data \in ViolationTypeUpdates :
          update_violation_type(id, data)
    \/ \E id \in TypeIds : delete_violation_type(id)

ChallanReads ==
    \/ \E id \in ChallanIds : get_challan(id)
    \/ \E number \in NumberKeys : get_challan_by_number(number)

ChallanWrites ==
    \/ \E id \in ChallanIds, data \in ChallanUpdates : update_challan(id, data)
    \/ \E id \in ChallanIds : delete_challan(id)

create_challan(s, requests) ==
    \/ \E challan \in requests : create_challan_date(s, challan)
    \/ create_challan_count(s)
    \/ create_challan_build(s)
    \/ create_challan_commit(s)

\* A step of a specification that does not limit the number of calls.
Free(step) == step /\ UNCHANGED <<detector, observed, calls>>

\* A call of a specification that makes at most MaxCalls calls in a run.
Counted(call) ==
    /\ calls < MaxCalls /\ call /\ calls' = calls + 1
    /\ UNCHANGED <<detector, observed>>

\* Every operation, called by concurrent sessions.
Next ==
    \/ Free(Tick(MaxTime))
    \/ Free(VehicleReads) \/ Free(VehicleWrites)
    \/ Free(ViolationTypeReads) \/ Free(ViolationTypeWrites)
    \/ Free(ChallanReads) \/ Free(ChallanWrites)
    \/ \E s \in Sessions : Free(create_challan(s, ChallanCreates))

Spec == Init /\ [][Next]_vars

\* The store after create_vehicle and create_violation_type have each
\* returned once, at tick 0.
Registered(records) ==
    /\ vehicles = {NewVehicle([registration_number |-> "MH12AB1234",
                               color |-> "white",
                               owner_id |-> 3, status |-> Null], 1, 0)}
    /\ violation_types = {NewViolationType([code |-> "V001", severity |-> "high",
                                            fine_amount |-> 500], 1, 0)}
    /\ challans = {}
    /\ next_id = [vehicles |-> 2, violation_types |-> 2, challans |-> 1]
    /\ now = 0
    /\ sess = [s \in Sessions |-> Idle]
    /\ ret = NoReturn
    /\ detector = ViolationDetector(DefaultThreshold)
    /\ observed = records
    /\ calls = 0

\* One session creates challans for a registered vehicle and violation
\* type, and challans are deleted, while the clock runs over midnight.
NextNumber ==
    \/ Free(Tick(MaxTime))
    \/ Free(create_challan(1, ChallanCreates))
    \/ \E id \in ChallanIds : Free(delete_challan(id))

SpecNumber == Registered(FALSE) /\ [][NextNumber]_vars

\* Challans are created by concurrent sessions and nothing else writes.
NextRace ==
    \/ Free(Tick(MaxTime))
    \/ \E s \in Sessions : Free(create_challan(s, ChallanCreates))

SpecRace == Registered(TRUE) /\ [][NextRace]_vars

\* The updates of a vehicle's unique columns.
VehicleKeyUpdates ==
    Supplied([registration_number : Regs, chassis_number : ChassisNos,
              engine_number : EngineNos],
             {"registration_number", "chassis_number", "engine_number"})

\* The requests for a challan of the vehicle registered first.
FirstVehicleChallans == {c \in ChallanCreates : c.vehicle_id = 1}

\* The store is empty and what calls return is not recorded.
InitUnobserved ==
    /\ vehicles = {}
    /\ violation_types = {}
    /\ challans = {}
    /\ next_id = [vehicles |-> 1, violation_types |-> 1, challans |-> 1]
    /\ now = 0
    /\ sess = [s \in Sessions |-> Idle]
    /\ ret = NoReturn
    /\ detector = ViolationDetector(DefaultThreshold)
    /\ observed = FALSE
    /\ calls = 0

\* Vehicles and challans are created, updated and deleted in any
\* interleaving, within one tick of the clock.
NextUnique ==
    \/ \E vehicle \in VehicleCreates : Free(create_vehicle(vehicle))
    \/ \E id \in VehicleIds, data \in VehicleKeyUpdates :
          Free(update_vehicle(id, data))
    \/ \E id \in VehicleIds : Free(delete_vehicle(id))
    \/ \E vt \in ViolationTypeCreates : Free(create_violation_type(vt))
    \/ \E s \in Sessions : Free(create_challan(s, FirstVehicleChallans))
    \/ \E id \in ChallanIds : Free(update_challan(id, NoData))
    \/ \E id \in ChallanIds : Free(delete_challan(id))

SpecUnique == InitUnobserved /\ [][NextUnique]_vars

\* A challan as create_challan stored it at tick 0, the n-th of that day,
\* for vehicle n; its violation type has been deleted since if none is kept.
StockChallan(n, types) ==
    [NewChallan([challan_number |-> FormatChallanNumber(StrfYmd(0), n - 1),
                 vehicle_id |-> n, violation_type_id |-> 1,
                 officer_id |-> 7, fine_amount |-> 500], 0)
        EXCEPT !.id = n,
               !.violation_type_id = IF types = {} THEN NoRef ELSE @]

\* Stores that calls at tick 0 leave behind.  Vehicle 1 has been given its
\* chassis and engine numbers by update_vehicle; each vehicle has one
\* challan.  `made` counts the rows created per table, `kept` names those
\* not deleted since.
StockStore(made, kept) ==
    LET v1 == [NewVehicle([registration_number |-> "MH12AB1234",
                           color |-> "white",
                               owner_id |-> 3, status |-> Null], 1, 0)
                  EXCEPT !.chassis_number = "CH001",
                         !.engine_number = "EN001"]
        v2 == NewVehicle([registration_number |-> "KA05CD5678",
                          color |-> "white",
                               owner_id |-> 3, status |-> Null], 2, 0)
        types == IF 1 \in kept.types
                 THEN {NewViolationType([code |-> "V001", severity |-> "high",
                                         fine_amount |-> 500], 1, 0)}
                 ELSE {}
    IN  [vehicles |-> {v \in {v1, v2} :
                          v.id <= made.vehicles /\ v.id \in kept.vehicles},
         violation_types |-> types,
         challans |-> {StockChallan(n, types) :
                          n \in {m \in 1 .. made.challans :
                                    /\ m \in kept.challans
                                    /\ m \in kept.vehicles}},
         next_id |-> [vehicles |-> made.vehicles + 1,
                      violation_types |-> made.types + 1,
                      challans |-> made.challans + 1]]

StockStores ==
    {StockStore([vehicles |-> 0, types |-> 0, challans |-> 0],
                [vehicles |-> {}, types |-> {}, challans |-> {}]),
     StockStore([vehicles |-> 1, types |-> 1, challans |-> 0],
                [vehicles |-> {1}, types |-> {1}, challans |-> {}]),
     StockStore([vehicles |-> 1, types |-> 1, challans |-> 1],
                [vehicles |-> {1}, types |-> {1}, challans |-> {1}]),
     StockStore([vehicles |-> 2, types |-> 1, challans |-> 2],
                [vehicles |-> {1, 2}, types |-> {1}, challans |-> {1, 2}]),
     StockStore([vehicles |-> 2, types |-> 1, challans |-> 2],
                [vehicles |-> {2}, types |-> {1}, challans |-> {1, 2}]),
     StockStore([vehicles |-> 2, types |-> 1, challans |-> 2],
                [vehicles |-> {1, 2}, types |-> {1}, challans |-> {2}]),
     StockStore([vehicles |-> 2, types |-> 1, challans |-> 2],
                [vehicles |-> {1, 2}, types |-> {}, challans |-> {1, 2}])}

InitStocked ==
    /\ \E stock \in StockStores :
          /\ vehicles = stock.vehicles
          /\ violation_types = stock.violation_types
          /\ challans = stock.challans
          /\ next_id = stock.next_id
    /\ now = 0
    /\ sess = [s \in Sessions |-> Idle]
    /\ ret = NoReturn
    /\ detector = ViolationDetector(DefaultThreshold)
    /\ observed = TRUE
    /\ calls = 0

\* One caller makes at most MaxCalls calls on a stocked store, each of any
\* operation, before or after the clock has advanced.
NextCall ==
    \/ Free(Tick(1))
    \/ Counted(VehicleReads) \/ Counted(VehicleWrites)
    \/ Counted(ViolationTypeReads) \/ Counted(ViolationTypeWrites)
    \/ Counted(ChallanReads) \/ Counted(ChallanWrites)
    \/ \E challan \in ChallanCreates : Counted(create_challan_date(1, challan))
    \/ Free(create_challan_count(1))
    \/ Free(create_challan_build(1))
    \/ Free(create_challan_commit(1))

SpecCall == InitStocked /\ [][NextCall]_vars

\* One session creates challans for a registered vehicle and violation
\* type while vehicles and violation types are deleted.
NextRefs ==
    \/ Free(Tick(1))
    \/ Free(create_challan(1, ChallanCreates))
    \/ \E id \in VehicleIds : Free(delete_vehicle(id))
    \/ \E id \in TypeIds : Free(delete_violation_type(id))

SpecRefs == Registered(TRUE) /\ [][NextRefs]_vars

\* The status of the challans of a stocked store is updated, any number of
\* times.
NextStatus ==
    \/ Free(Tick(1))
    \/ \E id \in ChallanIds, data \in StatusUpdates :
          Free(update_challan(id, data))

SpecStatus == InitStocked /\ [][NextStatus]_vars

\* The lists are read from a stocked store, and from the store after one
\* session has created further challans for the first vehicle.
NextList ==
    \/ Free(Tick(1))
    \/ Free(create_challan(1, FirstVehicleChallans))
    \/ Free(VehicleLists)
    \/ Free(ViolationTypeLists)
    \/ Free(ChallanLists)

SpecList == InitStocked /\ [][NextList]_vars

\* A violation type with a code of its own.
MoreViolationTypes ==
    [code : {"V002"}, severity : Severities, fine_amount : {500}]

\* The statistics are read from a stocked store while challans change
\* status and a further violation type is created.
NextStats ==
    \/ \E vt \in MoreViolationTypes : Free(create_violation_type(vt))
    \/ \E id \in ChallanIds, data \in StatusUpdates :
          Free(update_challan(id, data))
    \/ Free(get_violation_type_statistics)
    \/ Free(get_dashboard_statistics)

SpecStats == InitStocked /\ [][NextStats]_vars

\* A caller makes at most MaxCalls calls of the PDF generator.
NextPdf ==
    \/ \E data \in Dicts(ChallanRequired), path \in OutputPaths :
          Counted(generate_challan_pdf(data, path))
    \/ \E data \in Dicts(ReceiptRequired), path \in OutputPaths :
          Counted(generate_receipt_pdf(data, path))
    \/ \E data \in Dicts(ChallanRequired) : Counted(validate_challan_data(data))
    \/ \E data \in Dicts(ReceiptRequired) : Counted(validate_receipt_data(data))

SpecPdf == Init /\ [][NextPdf]_vars

\* A caller makes at most MaxCalls calls of get_db_connection.
NextConnect ==
    \E result \in ConnectResults : Counted(get_db_connection(result))

SpecConnect == Init /\ [][NextConnect]_vars

\* A detector constructed with any threshold, and an empty store.
InitDetector ==
    /\ vehicles = {}
    /\ violation_types = {}
    /\ challans = {}
    /\ next_id = [vehicles |-> 1, violation_types |-> 1, challans |-> 1]
    /\ now = 0
    /\ sess = [s \in Sessions |-> Idle]
    /\ \E threshold \in Thresholds : detector = ViolationDetector(threshold)
    /\ ret = NoReturn
    /\ observed = TRUE
    /\ calls = 0

\* A step of the detector in a specification that does not limit the
\* number of calls.
FreeDetector(step) == step /\ UNCHANGED <<observed, calls>>

\* The methods of a detector are called in any order while the clock runs.
NextDetector ==
    \/ Free(Tick(1))
    \/ \E frame \in Frames, region \in Regions :
          \/ FreeDetector(detect_helmet_violation(frame, region))
          \/ FreeDetector(detect_seat_belt_violation(frame, region))
          \/ FreeDetector(detect_tripling_violation(frame, region))
          \/ FreeDetector(detect_all_violations(frame, region))
    \/ \E i \in DOMAIN detector.violation_history :
          FreeDetector(get_violation_severity(detector.violation_history[i]))
    \/ \E violation \in ViolationType : FreeDetector(get_violation_fine(violation))
    \/ FreeDetector(clear_history)
    \/ FreeDetector(get_history)
    \/ FreeDetector(clear_returned_list)
    \/ \E threshold \in Thresholds :
          FreeDetector(set_confidence_threshold(threshold))

SpecDetector == InitDetector /\ [][NextDetector]_vars

\* A caller makes at most MaxCalls calls of the plate detector and of its
\* utility functions.
NextPlate ==
    \/ \E readable \in BOOLEAN, plates \in PlateLists(MaxPlates) :
          Counted(process_image(readable, plates))
    \/ \E text \in PlateTexts : Counted(clean_plate_text(text))
    \/ \E text \in PlateTexts, country \in Countries :
          Counted(validate_plate_format(text, country))

SpecPlate == Init /\ [][NextPlate]_vars

\* One caller creates, updates and deletes challans for a registered
\* vehicle and violation type, one call after the other, within the first
\* UTC day of the clock.
NextSequential ==
    \/ Free(Tick(TicksPerDay - 1))
    \/ Free(create_challan(1, ChallanCreates))
    \/ \E id \in ChallanIds, data \in StatusUpdates :
          sess[1].pc = "idle" /\ Free(update_challan(id, data))
    \/ \E id \in ChallanIds : sess[1].pc = "idle" /\ Free(delete_challan(id))

SpecSequential == Registered(TRUE) /\ [][NextSequential]_vars

\* The update that marks a challan paid.
PaidUpdates == [status : {"paid"}]

\* The updates of a vehicle's registration number.
RegistrationUpdates == [registration_number : Regs]

\* Records of the three tables are created, updated and deleted by one
\* caller in any order, and looked up by id and by natural key in between.
NextLookup ==
    \/ \E vehicle \in VehicleCreates : Free(create_vehicle(vehicle))
    \/ \E id \in VehicleIds, data \in RegistrationUpdates :
          Free(update_vehicle(id, data))
    \/ \E id \in VehicleIds : Free(delete_vehicle(id))
    \/ \E vt \in ViolationTypeCreates : Free(create_violation_type(vt))
    \/ \E id \in TypeIds : Free(delete_violation_type(id))
    \/ Free(create_challan(1, FirstVehicleChallans))
    \/ \E id \in ChallanIds, data \in PaidUpdates :
          Free(update_challan(id, data))
    \/ \E id \in ChallanIds : Free(delete_challan(id))
    \/ Free(VehicleReads)
    \/ Free(ViolationTypeReads)
    \/ Free(ChallanReads)

SpecLookup == Init /\ [][NextLookup]_vars

\* ------------------------------------------------------- reading numbers

\* The value of a decimal digit character.
DigitValue(ch) == CHOOSE d \in 0 .. 9 : DigitChar[d + 1] = ch

\* The number a sequence of decimal digit characters denotes.
RECURSIVE Decimal(_)
Decimal(digits) ==
    IF Len(digits) = 0 THEN 0
    ELSE 10 * Decimal(SubSeq(digits, 1, Len(digits) - 1))
             + DigitValue(digits[Len(digits)])

\* The calendar date of the day that clock reading t falls on.
Today(t) == DateAfter(Epoch.year, Epoch.month, Epoch.day, DayOf(t))

\* `number` reads CH-<YYYYMMDD>-<serial in 5 digits> for the date and serial.
ReadsAs(number, date, serial) ==
    /\ Len(number) = 17
    /\ SubSeq(number, 1, 3) = <<"C", "H", "-">>
    /\ Decimal(SubSeq(number, 4, 7)) = date.year
    /\ Decimal(SubSeq(number, 8, 9)) = date.month
    /\ Decimal(SubSeq(number, 10, 11)) = date.day
    /\ number[12] = "-"
    /\ Decimal(SubSeq(number, 13, 17)) = serial

\* ------------------------------------------------------------------ claims

\* A session's call of generate_challan_number returns in this step.
Numbers(s) == sess[s].pc = "dated" /\ sess'[s].pc = "numbered"

\* A session's create_challan commits and returns in this step.
Commits(s) == sess[s].pc = "built" /\ sess'[s].pc = "idle"

\* The date text a session read names the day of the midnight it read.
OneDay(s) == sess[s].date_str = StrfYmd(sess[s].midnight)

\* C1: when generate_challan_number returns on a UTC day on which exactly N
\* stored challans have created_at at or after that day's midnight, the
\* text it returns reads CH-<that day as YYYYMMDD>-<N+1 in 5 digits>; the
\* first challan of a day gets the serial 00001.
C1_NumberStep ==
    \A s \in Sessions :
        (Numbers(s) /\ sess[s].date_str = StrfYmd(now)) =>
            LET N == Cardinality({c \in challans :
                                    DayOf(c.created_at) >= DayOf(now)})
                number == sess'[s].challan_number
            IN  /\ ReadsAs(number, Today(now), N + 1)
                /\ N = 0 => SubSeq(number, 13, 17) = <<"0", "0", "0", "0", "1">>

C1_GenerateChallanNumber == [][C1_NumberStep]_vars

\* C1 witness: a number has been generated on the second day of the clock
\* with one challan created since that day's midnight and an older one
\* from the day before in the store.
C1_Witness ==
    \E s \in Sessions :
        /\ sess[s].pc = "numbered"
        /\ OneDay(s)
        /\ DayOf(sess[s].midnight) = 1
        /\ sess[s].count = 1
        /\ \E c \in challans : DayOf(c.created_at) = 0

\* Two calls are in flight that both read the same count on the same UTC
\* day, and neither has committed.
Raced(s, o) ==
    /\ s # o
    /\ sess[s].pc \in {"numbered", "built"}
    /\ sess[o].pc \in {"numbered", "built"}
    /\ OneDay(s) /\ OneDay(o)
    /\ sess[s].midnight = sess[o].midnight
    /\ sess[s].count = sess[o].count

\* The call of session s names a stored vehicle and violation type.
ValidCall(s) ==
    /\ \E v \in vehicles : v.id = sess[s].vehicle_id
    /\ \E v \in violation_types : v.id = sess[s].violation_type_id

C2_SameNumber ==
    \A s, o \in Sessions :
        Raced(s, o) => sess[s].challan_number = sess[o].challan_number

C2_CommitStep ==
    \A s \in Sessions :
        (Commits(s) /\ OneDay(s) /\ ValidCall(s)) =>
            LET number == sess[s].challan_number
                stored == {c \in challans : c.challan_number = number}
            IN  \* the call that commits first stores its challan
                /\ (\E o \in Sessions : Raced(s, o)) =>
                      /\ ret'.outcome = "row"
                      /\ Cardinality({c \in challans' :
                                        c.challan_number = number}) = 1
                \* the call that commits second is rejected
                /\ stored # {} =>
                      /\ ret'.outcome = "IntegrityError"
                      /\ challans' = challans
                      /\ Cardinality(stored) = 1

C6_DuplicateStep ==
    (/\ ret'.op = "create_vehicle"
     /\ \E v \in vehicles :
           \/ v.registration_number = ret'.data.registration_number
           \/ v.chassis_number = ret'.data.chassis_number
           \/ v.engine_number = ret'.data.engine_number) =>
        /\ ret'.outcome = "IntegrityError"
        /\ vehicles' = vehicles

C7_DeleteStep ==
    (ret'.op = "delete_vehicle" /\ ret'.outcome = "true") =>
        /\ \A v \in vehicles' : v.id # ret'.id
        /\ \A c \in challans' : c.vehicle_id # ret'.id
        /\ \A v \in vehicles : v.id # ret'.id => v \in vehicles'
        /\ \A c \in challans : c.vehicle_id # ret'.id => c \in challans'
        /\ vehicles' \subseteq vehicles
        /\ challans' \subseteq challans
        /\ violation_types' = violation_types

C7_DeleteVehicleCascades == [][C7_DeleteStep]_vars

\* C7 witness: delete_vehicle(1) has returned True on the store of two
\* vehicles with one challan each; vehicle 2 and its challan remain.
C7_Witness ==
    /\ ret.op = "delete_vehicle" /\ ret.outcome = "true" /\ ret.id = 1
    /\ calls = 1
    /\ next_id.vehicles = 3 /\ next_id.challans = 3
    /\ \E v \in vehicles : v.id = 2
    /\ \E c \in challans : c.vehicle_id = 2
    /\ violation_types # {}

\* The rows of the table an operation works on, among the given tables.
TableOf(op, vs, ts, cs) ==
    CASE op \in {"get_vehicle", "get_vehicle_by_registration",
                 "update_vehicle", "delete_vehicle"} -> vs
      [] op \in {"get_violation_type", "get_violation_type_by_code",
                 "update_violation_type", "delete_violation_type"} -> ts
      [] op \in {"get_challan", "get_challan_by_number",
                 "update_challan", "delete_challan"} -> cs

Before(op) == TableOf(op, vehicles, violation_types, challans)
After(op) == TableOf(op, vehicles', violation_types', challans')

Deletes == {"delete_vehicle", "delete_violation_type", "delete_challan"}
Updates == {"update_vehicle", "update_violation_type", "update_challan"}
GetsById == {"get_vehicle", "get_violation_type", "get_challan"}
GetsByKey == {"get_vehicle_by_registration", "get_violation_type_by_code",
              "get_challan_by_number"}

\* C8: delete_vehicle, delete_violation_type and delete_challan called with
\* an id no row has return False and leave the store unchanged.
C8_MissingStep ==
    (/\ ret'.op \in Deletes
     /\ \A r \in Before(ret'.op) : r.id # ret'.id) =>
        /\ ret'.outcome = "false"
        /\ store' = store

C8_DeleteMissing == [][C8_MissingStep]_vars

\* C8 witness: delete_vehicle has returned False for an id no vehicle has,
\* with another vehicle and its challan in the store.
C8_Witness ==
    /\ ret.op = "delete_vehicle" /\ ret.outcome = "false"
    /\ vehicles # {} /\ challans # {}
    /\ \A v \in vehicles : v.id # ret.id

\* C9: an update_vehicle, update_violation_type or update_challan that
\* updates an existing row leaves it with the supplied values in the
\* supplied fields, the time of the call in updated_at and every other field
\* as it was, returns that row, and changes no other row; with no field
\* supplied only updated_at changes.
C9_UpdateStep ==
    (/\ ret'.op \in Updates
     /\ ret'.outcome # "IntegrityError"
     /\ \E r \in Before(ret'.op) : r.id = ret'.id) =>
        \E old \in Before(ret'.op), new \in After(ret'.op) :
            /\ old.id = ret'.id
            /\ new.id = ret'.id
            /\ DOMAIN new = DOMAIN old
            /\ \A f \in DOMAIN old :
                  new[f] = IF f = "updated_at" THEN now
                           ELSE IF f \in DOMAIN ret'.data THEN ret'.data[f]
                           ELSE old[f]
            /\ DOMAIN ret'.data = {} =>
                  \A f \in DOMAIN old \ {"updated_at"} : new[f] = old[f]
            /\ After(ret'.op) \ {new} = Before(ret'.op) \ {old}
            /\ ret'.outcome = "row"
            /\ ret'.rows = {new}
            /\ \A op \in Updates \ {ret'.op} : After(op) = Before(op)
            /\ next_id' = next_id

C9_PartialUpdate == [][C9_UpdateStep]_vars

\* C9 witness: update_vehicle has returned the row after a call that
\* supplied only the color, one tick after the vehicle was created, with
\* another vehicle in the store.
C9_Witness ==
    /\ ret.op = "update_vehicle" /\ ret.outcome = "row"
    /\ DOMAIN ret.data = {"color"}
    /\ now = 1
    /\ Cardinality(vehicles) = 2
    /\ \E v \in vehicles :
          v.id = ret.id /\ v.color = "black" /\ v.updated_at = 1
                        /\ v.created_at = 0

\* Some stored row has the id or the natural key of the returned call.
Matches(r) ==
    CASE r.op \in GetsById \cup Updates ->
            \E row \in Before(r.op) : row.id = r.id
      [] r.op = "get_vehicle_by_registration" ->
            \E v \in vehicles : v.registration_number = r.key
      [] r.op = "get_violation_type_by_code" ->
            \E v \in violation_types : v.code = r.key
      [] r.op = "get_challan_by_number" ->
            \E c \in challans : c.challan_number = r.key

\* C10: the get-by-id functions, the get-by-natural-key functions and the
\* three update functions return None when no stored row matches, and leave
\* the store unchanged.
C10_NoMatchStep ==
    (/\ ret'.op \in GetsById \cup GetsByKey \cup Updates
     /\ ~Matches(ret')) =>
        /\ ret'.outcome = "none"
        /\ ret'.rows = {}
        /\ store' = store

C10_NoneWhenMissing == [][C10_NoMatchStep]_vars

\* C10 witness: update_challan has returned None for an id no challan has,
\* called with data, while another challan is stored.
C10_Witness ==
    /\ ret.op = "update_challan" /\ ret.outcome = "none"
    /\ DOMAIN ret.data # {}
    /\ challans # {}
    /\ \A c \in challans : c.id # ret.id


\* Every stored challan names a stored vehicle and a stored violation type.
C11_Refs ==
    \A c \in challans :
        /\ \E v \in vehicles : v.id = c.vehicle_id
        /\ \E t \in violation_types : c.violation_type_id = {t.id}

\* A create_challan whose vehicle or violation type is not stored fails and
\* stores nothing.
C11_CreateStep ==
    \A s \in Sessions :
        (Commits(s) /\ ~ValidCall(s)) =>
            /\ ret'.outcome = "IntegrityError"
            /\ challans' = challans

C12_Enabled ==
    \A c \in challans :
        \A status \in {"issued", "paid", "pending", "cancelled", "appealed",
                       "resolved"} :
            ENABLED (/\ Free(update_challan(c.id, [status |-> status]))
                     /\ ret'.outcome = "row"
                     /\ \E d \in challans' : d.id = c.id /\ d.status = status)

\* An update_challan of a stored challan that supplies a status is not
\* rejected and leaves the challan with that status.
C12_Step ==
    (/\ ret'.op = "update_challan"
     /\ "status" \in DOMAIN ret'.data
     /\ \E c \in challans : c.id = ret'.id) =>
        /\ ret'.outcome = "row"
        /\ \A d \in challans' : d.id = ret'.id => d.status = ret'.data.status

\* C12: update_challan moves a challan from any status of {issued, paid,
\* pending, cancelled, appealed, resolved} to any status of that set in a
\* single step; no transition is rejected and no order is enforced.
C12_FreeTransitions == [](C12_Enabled) /\ [][C12_Step]_vars

\* C12 witness: a challan created pending has been moved to resolved, and
\* update_challan has just moved another challan back to issued.
C12_Witness ==
    /\ ret.op = "update_challan" /\ ret.outcome = "row"
    /\ ret.data.status = "issued"
    /\ \E c, d \in challans :
          /\ c.id = ret.id /\ c.status = "issued"
          /\ d.id # c.id /\ d.status = "resolved"

\* The elements of a returned list.
Listed(rows) == {rows[i] : i \in DOMAIN rows}

\* A row satisfies every filter that was passed (is not None) to the list
\* call with arguments a.
Passes(row, a) ==
    /\ "owner_id" \in DOMAIN a => \A id \in a.owner_id : row.owner_id = id
    /\ "vehicle_id" \in DOMAIN a => \A id \in a.vehicle_id : row.vehicle_id = id
    /\ "officer_id" \in DOMAIN a => \A id \in a.officer_id : row.officer_id = id
    /\ "status" \in DOMAIN a => (a.status # Null => row.status = a.status)
    /\ "severity" \in DOMAIN a =>
          (a.severity # Null => row.severity = a.severity)
    /\ "date_from" \in DOMAIN a => \A t \in a.date_from : row.issued_date >= t
    /\ "date_to" \in DOMAIN a => \A t \in a.date_to : row.issued_date <= t

\* The table a list function reads.
Listing(op) ==
    CASE op = "get_vehicles" -> vehicles
      [] op = "get_violation_types" -> violation_types
      [] op = "get_challans" -> challans

\* C13: in get_challans, get_vehicles and get_violation_types a filter
\* passed with a falsy value (0, '') restricts the result to the rows whose
\* field equals that value, and a filter that is not passed (None) places no
\* constraint: the rows returned all satisfy every passed filter, and a
\* first page that is not full holds every stored row that does.
C13_FalsyFilters ==
    ret.op \in {"get_vehicles", "get_violation_types", "get_challans"} =>
        /\ \A row \in Listed(ret.rows) : Passes(row, ret.data)
        /\ (ret.data.skip = 0 /\ Len(ret.rows) < ret.data.limit) =>
              \A row \in Listing(ret.op) :
                  Passes(row, ret.data) => row \in Listed(ret.rows)

\* The lists of all of `rows`, each once, by issued_date descending.
C14_Sorted(rows) ==
    {seq \in [1 .. Cardinality(rows) -> rows] :
        /\ \A i, j \in DOMAIN seq : i # j => seq[i] # seq[j]
        /\ \A i, j \in DOMAIN seq :
              i < j => seq[i].issued_date >= seq[j].issued_date}

\* What get_challans returned is the page from skip+1 to skip+limit of the
\* challans that satisfy every passed filter, by issued_date descending.
C14_Page ==
    ret.op = "get_challans" =>
        \E seq \in C14_Sorted({c \in challans : Passes(c, ret.data)}) :
            /\ Len(ret.rows) <= ret.data.limit
            /\ Len(ret.rows) < ret.data.limit =>
                  Len(seq) <= ret.data.skip + Len(ret.rows)
            /\ \A i \in DOMAIN ret.rows :
                  /\ ret.data.skip + i <= Len(seq)
                  /\ ret.rows[i] = seq[ret.data.skip + i]

\* Two get_challans calls in a row, with the same filters and the store
\* unchanged between them.
C14_Again ==
    /\ ret.op = "get_challans" /\ ret'.op = "get_challans"
    /\ challans' = challans
    /\ \A f \in DOMAIN ret.data \ {"skip", "limit"} : ret'.data[f] = ret.data[f]

\* The same call returns the same list, and the page that follows a page
\* repeats none of its challans.
C14_Stable ==
    C14_Again =>
        /\ (ret'.data.skip = ret.data.skip /\ ret'.data.limit = ret.data.limit)
              => ret'.rows = ret.rows
        /\ ret'.data.skip = ret.data.skip + ret.data.limit
              => Listed(ret'.rows) \cap Listed(ret.rows) = {}

\* C14: get_challans returns exactly the challans that satisfy all supplied
\* filters, sorted by issued date descending, with the first `skip` dropped
\* and at most `limit` returned; on an unchanged store the same call always
\* returns the same list, so consecutive pages neither repeat nor omit a
\* challan.
C14_ListChallans == [](C14_Page) /\ [][C14_Stable]_vars

RECURSIVE C16_Sum(_)
C16_Sum(rows) ==
    IF rows = {} THEN 0
    ELSE LET row == CHOOSE r \in rows : TRUE
         IN  C16_Sum(rows \ {row}) + row.fine_amount

\* C16: get_dashboard_statistics returns total_vehicles = the number of
\* vehicles, total_challans = the number of challans, pending_challans =
\* the number of pending challans and total_revenue = the sum of
\* fine_amount over the paid challans only; on an empty store all four are
\* zero, none null.
C16_Dashboard ==
    ret.op = "get_dashboard_statistics" =>
        /\ Cardinality(ret.rows) = 1
        /\ \A d \in ret.rows :
              /\ d.total_vehicles = Cardinality(vehicles)
              /\ d.total_challans = Cardinality(challans)
              /\ d.pending_challans =
                     Cardinality({c \in challans : c.status = "pending"})
              /\ d.total_revenue =
                     C16_Sum({c \in challans : c.status = "paid"})
              /\ (vehicles = {} /\ challans = {}) =>
                     d = [total_vehicles |-> 0, total_challans |-> 0,
                          pending_challans |-> 0, total_revenue |-> 0]

\* C16 witness: the dashboard has been returned for a store of two
\* challans, one paid and one pending: the revenue is the paid one's fine.
C16_Witness ==
    /\ ret.op = "get_dashboard_statistics"
    /\ \E c, d \in challans : c.status = "paid" /\ d.status = "pending"
    /\ Cardinality(challans) = 2
    /\ \A d \in ret.rows : d.total_revenue = 500 /\ d.pending_challans = 1

\* The document was not produced: the call raised the validation error.
Rejected == ret.outcome = "ValueError"

\* C17: generate_challan_pdf rejects the input with a validation error
\* exactly when one of challan_number, date, vehicle_number, owner_name,
\* violation_description, amount, location is not a key of the dictionary,
\* generate_receipt_pdf exactly when one of receipt_number, challan_number,
\* date, amount, payment_method, vehicle_number, owner_name is not; otherwise
\* a document is produced.
C17_RequiredFields ==
    /\ ret.op = "generate_challan_pdf" =>
          /\ Rejected <=>
                 ~({"challan_number", "date", "vehicle_number", "owner_name",
                    "violation_description", "amount", "location"}
                       \subseteq DOMAIN ret.data)
          /\ ~Rejected => ret.outcome \in {"bytes", "written"}
    /\ ret.op = "generate_receipt_pdf" =>
          /\ Rejected <=>
                 ~({"receipt_number", "challan_number", "date", "amount",
                    "payment_method", "vehicle_number", "owner_name"}
                       \subseteq DOMAIN ret.data)
          /\ ~Rejected => ret.outcome \in {"bytes", "written"}

\* C17 witness: generate_challan_pdf has rejected a dictionary that has
\* every required field but the location.
C17_Witness ==
    /\ ret.op = "generate_challan_pdf" /\ Rejected
    /\ DOMAIN ret.data = {"challan_number", "date", "vehicle_number",
                          "owner_name", "violation_description", "amount"}

\* The required fields of the document a generate call is for.
C18_Required ==
    IF ret.op = "generate_challan_pdf"
    THEN {"challan_number", "date", "vehicle_number", "owner_name",
          "violation_description", "amount", "location"}
    ELSE {"receipt_number", "challan_number", "date", "amount",
          "payment_method", "vehicle_number", "owner_name"}

\* C18: when PDF generation fails because required fields are missing, the
\* validation error lists every missing field and only the missing fields;
\* for a challan dictionary missing only `amount` the error names "Amount".
C18_ListsMissing ==
    (ret.op \in {"generate_challan_pdf", "generate_receipt_pdf"} /\ Rejected)
        =>
        /\ Listed(ret.rows) = C18_Required \ DOMAIN ret.data
        /\ (/\ ret.op = "generate_challan_pdf"
            /\ C18_Required \ DOMAIN ret.data = {"amount"}) =>
               \E i \in DOMAIN ret.rows : ret.rows[i] \in {"Amount", "amount"}

\* ---------------------------------------------------------------------------
\* C19: whenever connect() raises an Error inside get_db_connection, whatever
\* its error number, the call prints the line that belongs to that number
\* (a line of its own for 2003, 1045 and 1049, "Error: " and the text of the
\* error for any other) and ends by raising that same error: it returns
\* nothing in its place.
C19_Line(err) ==
    IF err.errno = 2003
    THEN "Error: Unable to connect to MySQL Server. Make sure the server is running."
    ELSE IF err.errno = 1045 THEN "Error: Invalid username or password."
    ELSE IF err.errno = 1049 THEN "Error: Database does not exist."
    ELSE "Error: " \o err.text

C19_Reraised ==
    (ret.op = "get_db_connection" /\ ret.data.kind = "Error")
        => /\ ret.outcome = "Error"
           /\ ret.rows = {ret.data}
           /\ ret.key = C19_Line(ret.data)

\* An access-denied error (1045) was reported and raised again.
C19_Witness ==
    /\ ret.op = "get_db_connection"
    /\ ret.outcome = "Error"
    /\ ret.id = 1045
    /\ ret.key = "Error: Invalid username or password."
    /\ ret.rows = {ret.data}

\* ---------------------------------------------------------------------------
\* C20: every detection that detect_helmet_violation,
\* detect_seat_belt_violation, detect_tripling_violation or
\* detect_all_violations returns, and every entry of the detector's violation
\* history, has confidence 0, whatever the frame, the region and the
\* threshold of the detector.
C20_Detects ==
    {"detect_helmet_violation", "detect_seat_belt_violation",
     "detect_tripling_violation", "detect_all_violations"}

C20_ZeroConfidence ==
    /\ ret.op \in C20_Detects
          => \A i \in DOMAIN ret.rows : ret.rows[i].confidence = 0
    /\ \A i \in DOMAIN detector.violation_history :
          detector.violation_history[i].confidence = 0

\* detect_all_violations returned three detections, which are the last
\* three entries of a history that held entries before.
C20_Witness ==
    /\ ret.op = "detect_all_violations"
    /\ Len(ret.rows) = 3
    /\ Len(detector.violation_history) > 3
    /\ SubSeq(detector.violation_history,
              Len(detector.violation_history) - 2,
              Len(detector.violation_history)) = ret.rows

\* ---------------------------------------------------------------------------
\* C21: a call of set_confidence_threshold with a value below 0 or above 1
\* (10 tenths) raises ValueError and leaves confidence_threshold as it was; a
\* call with a value from 0 to 1 sets confidence_threshold to that value.
C21_Step ==
    ret'.op = "set_confidence_threshold"
        => IF ret'.id < 0 \/ ret'.id > 10
           THEN /\ ret'.outcome = "ValueError"
                /\ detector'.confidence_threshold = detector.confidence_threshold
           ELSE /\ ret'.outcome = "none"
                /\ detector'.confidence_threshold = ret'.id

C21_ThresholdChecked == [][C21_Step]_vars

\* A threshold of 1.1 was rejected by a detector whose threshold had been
\* set to 1.0.
C21_Witness ==
    /\ ret.op = "set_confidence_threshold"
    /\ ret.outcome = "ValueError"
    /\ ret.id = 11
    /\ detector.confidence_threshold = 10

\* ---------------------------------------------------------------------------
\* C22: every plate_text in a list that process_image returns is upper case,
\* holds only the characters A-Z, 0-9, space and hyphen, and passes the
\* format check: at least 8 characters, a digit and a letter among them.
C22_PostProcessed ==
    (ret.op = "process_image" /\ ret.outcome = "list")
        => \A i \in DOMAIN ret.rows :
              LET text == ret.rows[i].plate_text
              IN  /\ text = Upper(text)
                  /\ \A k \in DOMAIN text : text[k] \in AllowedChars
                  /\ Len(text) >= 8
                  /\ \E k \in DOMAIN text : IsDigit(text[k])
                  /\ \E k \in DOMAIN text : IsAlpha(text[k])

\* ---------------------------------------------------------------------------
\* C23: when create_challan, update_challan and delete_challan are called one
\* after the other within one UTC day, the number that
\* generate_challan_number computes is the challan_number of no stored
\* challan, and the create_challan that computed it is not rejected by the
\* unique index; so also for a create that follows the deletion of an
\* earlier challan of the day.
C23_FreshNumber ==
    sess[1].pc \in {"numbered", "built"}
        => \A c \in challans : c.challan_number # sess[1].challan_number

C23_CommitStep ==
    (Commits(1) /\ ValidCall(1)) => ret'.outcome = "row"

C23_SequentialUnique == [](C23_FreshNumber) /\ [][C23_CommitStep]_vars

\* ---------------------------------------------------------------------------
\* C24: the date in a number that generate_challan_number produces names the
\* UTC day of the midnight from which the challans were counted for its
\* serial, also when midnight passes between the two clock reads; the first
\* challan of a new day never gets the date of the day before with the
\* serial 00001.
C24_SameDay ==
    \A s \in Sessions :
        sess[s].pc \in {"numbered", "built"} => OneDay(s)

\* ---------------------------------------------------------------------------
\* C25: on a detector whose threshold is a value that
\* set_confidence_threshold accepts, from 0 to 1 (10 tenths) and 0 among
\* them, detect_helmet_violation, detect_seat_belt_violation and
\* detect_tripling_violation return None, detect_all_violations returns an
\* empty list, and these calls leave the violation history empty.
C25_Step ==
    (detector.confidence_threshold \in 0 .. 10 /\ ret'.op \in C20_Detects)
        => /\ ret'.rows = <<>>
           /\ ret'.op # "detect_all_violations" => ret'.outcome = "none"
           /\ detector.violation_history = <<>>
                 => detector'.violation_history = <<>>

C25_NothingDetected == [][C25_Step]_vars

\* ---------------------------------------------------------------------------
\* C26: in every state of a ViolationDetector, from its construction with
\* any argument on and after any calls of set_confidence_threshold, rejected
\* or not, confidence_threshold lies from 0 to 1 (10 tenths).
C26_InRange == detector.confidence_threshold \in 0 .. 10

\* ---------------------------------------------------------------------------
\* C27: the violation history of a detector is the lists that the calls of
\* detect_all_violations since the last clear_history returned, one after
\* the other in the order of the calls: it is empty after construction and
\* after clear_history, each detect_all_violations appends the list it
\* returns, and nothing else changes it, neither the single detect_* methods
\* nor get_history, set_confidence_threshold or a change of the list that
\* get_history returned.
C27_Constructed == detector.violation_history = <<>>

C27_Step ==
    /\ ret'.op = "detect_all_violations"
          => detector'.violation_history
                 = detector.violation_history \o ret'.rows
    /\ ret'.op = "clear_history" => detector'.violation_history = <<>>
    /\ ret'.op \notin {"detect_all_violations", "clear_history"}
          => detector'.violation_history = detector.violation_history
    /\ ret'.op = "get_history" => ret'.rows = detector.violation_history

C27_HistoryConcatenates == C27_Constructed /\ [][C27_Step]_vars

\* The caller has cleared the list that get_history returned, and the
\* history still holds what two calls of detect_all_violations returned.
C27_Witness ==
    /\ ret.op = "list.clear"
    /\ Len(detector.violation_history) = 6
    /\ detector.violation_history[1].timestamp
           < detector.violation_history[4].timestamp

\* ---------------------------------------------------------------------------
\* C28: validate_challan_data reports a dictionary valid exactly when
\* generate_challan_pdf does not raise its missing-fields ValueError for
\* it, and validate_receipt_data agrees in the same way with
\* generate_receipt_pdf, also for a dictionary in which a required key is
\* present with the value 0, "" or None.
C28_Generates(required, data) ==
    \A i \in DOMAIN required : required[i] \in DOMAIN data

C28_Agree ==
    /\ ret.op = "validate_challan_data"
          => (ret.outcome = "valid" <=> C28_Generates(ChallanRequired, ret.data))
    /\ ret.op = "validate_receipt_data"
          => (ret.outcome = "valid" <=> C28_Generates(ReceiptRequired, ret.data))

\* ---------------------------------------------------------------------------
\* C29: a call of get_db_connection ends in one of two ways: it returns a
\* connection that is connected, or it raises an error.  It never returns
\* None, also not when connect() gives a connection whose is_connected() is
\* false.
C29_ConnectionOrError ==
    ret.op = "get_db_connection"
        => \/ ret.outcome = "Error"
           \/ ret.outcome = "connection" /\ ret.data.is_connected

\* ---------------------------------------------------------------------------
\* C30: a record that create_vehicle, create_violation_type or
\* create_challan has stored is returned, as it was stored, by the lookup by
\* its id and by the lookup by its natural key (registration number, code,
\* challan number) in every later state, until that record is updated or
\* deleted; creating, updating and deleting other records does not change
\* it.
C30_Lookups ==
    /\ ret.op = "get_vehicle"
          => \A v \in vehicles : v.id = ret.id => ret.rows = {v}
    /\ ret.op = "get_vehicle_by_registration"
          => \A v \in vehicles :
                v.registration_number = ret.key => ret.rows = {v}
    /\ ret.op = "get_violation_type"
          => \A v \in violation_types : v.id = ret.id => ret.rows = {v}
    /\ ret.op = "get_violation_type_by_code"
          => \A v \in violation_types : v.code = ret.key => ret.rows = {v}
    /\ ret.op = "get_challan"
          => \A c \in challans : c.id = ret.id => ret.rows = {c}
    /\ ret.op = "get_challan_by_number"
          => \A c \in challans : c.challan_number = ret.key => ret.rows = {c}

\* A row that is still stored after a step that is no update of it is
\* stored as it was.
C30_Kept(before, after, update) ==
    \A r \in before :
        ((\E a \in after : a.id = r.id)
             /\ ~(ret'.op = update /\ ret'.id = r.id))
            => r \in after

C30_Step ==
    /\ C30_Kept(vehicles, vehicles', "update_vehicle")
    /\ C30_Kept(violation_types, violation_types', "update_violation_type")
    /\ C30_Kept(challans, challans', "update_challan")

====
